---------------------------- MODULE Spec2Model ----------------------------
(***************************************************************************)
(* Model of the generated User CRUD backend (src/backend/main_api.py,      *)
(* sql_alchemy.py, pydantic_classes.py).                                   *)
(*                                                                         *)
(* The durable state is the "user" table of the SQLite database.  Every    *)
(* request obtains a SQLAlchemy session from get_db (autoflush=False,      *)
(* autocommit=False), runs one handler, and leaves through get_db's        *)
(* except/finally clauses.  The mutating handlers are "async def" bodies   *)
(* without an await, so each body runs to completion on the event loop,    *)
(* and a session shares nothing with another request's session but the     *)
(* committed table.  The model follows the requests one at a time.         *)
(***************************************************************************)
EXTENDS Integers, Sequences, FiniteSets, TLC

VARIABLES
    db,     \* committed rows of table "user", in rowid (= id) order
    sess,   \* the request being served: its position in get_db, its session
    call    \* the request being served: its input and, once its handler has run
            \* (status # 0), the table before the handler and the response

vars == <<db, sess, call>>

(***************************************************************************)
(* Bounds of the model.                                                    *)
(***************************************************************************)
MaxId == 2          \* ids are drawn from 1..MaxId
MaxBatch == 2       \* bulk requests carry at most MaxBatch items
MaxWindow == 2      \* skip and limit are drawn from -1..MaxWindow

Ids == 1..MaxId
Window == (0 - 1)..MaxWindow

(***************************************************************************)
(* UserCreate payloads (pydantic_classes.py): five typed fields.  Dates    *)
(* are <<year, month, day>>.                                               *)
(***************************************************************************)
Profiles ==
    { [username |-> "ada", email |-> "a@x.com",
       dateOfBirth |-> <<1990, 1, 1>>, isActive |-> TRUE],
      [username |-> "bob", email |-> "b@x.com",
       dateOfBirth |-> <<2000, 12, 31>>, isActive |-> FALSE] }

UserCreate ==
    { [id |-> i, username |-> p.username, email |-> p.email,
       dateOfBirth |-> p.dateOfBirth, isActive |-> p.isActive] :
         i \in Ids, p \in Profiles }

SeqsUpTo(S, n) == UNION { [1..k -> S] : k \in 0..n }

\* The element of a one-element set.
Only(S) == CHOOSE x \in S : TRUE

(***************************************************************************)
(* Column types of class User (sql_alchemy.py): what is written to and     *)
(* read from SQLite.  Date is stored as the text YYYY-MM-DD, Boolean as    *)
(* the integer 0 or 1, Integer and String as they are.                     *)
(***************************************************************************)
Digits == <<"0", "1", "2", "3", "4", "5", "6", "7", "8", "9">>
Digit(n) == Digits[n + 1]
DigitValue(c) == CHOOSE k \in 0..9 : Digits[k + 1] = c
Pad2(n) == <<Digit((n \div 10) % 10), Digit(n % 10)>>
Pad4(n) == <<Digit((n \div 1000) % 10), Digit((n \div 100) % 10)>> \o Pad2(n)
Num2(s) == DigitValue(s[1]) * 10 + DigitValue(s[2])
Num4(s) == Num2(SubSeq(s, 1, 2)) * 100 + Num2(SubSeq(s, 3, 4))

DateBind(d) == Pad4(d[1]) \o <<"-">> \o Pad2(d[2]) \o <<"-">> \o Pad2(d[3])
DateResult(s) == <<Num4(SubSeq(s, 1, 4)), Num2(SubSeq(s, 6, 7)), Num2(SubSeq(s, 9, 10))>>
BoolBind(b) == IF b THEN 1 ELSE 0
BoolResult(n) == n # 0

\* The row an ORM object is written as, and the object a row is loaded as.
ToRow(u) ==
    [id |-> u.id, username |-> u.username, email |-> u.email,
     dateOfBirth |-> DateBind(u.dateOfBirth), isActive |-> BoolBind(u.isActive)]
FromRow(r) ==
    [id |-> r.id, username |-> r.username, email |-> r.email,
     dateOfBirth |-> DateResult(r.dateOfBirth), isActive |-> BoolResult(r.isActive)]

(***************************************************************************)
(* The table "user": id is INTEGER PRIMARY KEY, so rows are kept in id     *)
(* order and a second row with the same id is refused.                     *)
(***************************************************************************)
RowIds(t) == { t[i].id : i \in 1..Len(t) }

SelectWhereId(t, id) ==
    LET Match(r) == r.id = id IN SelectSeq(t, Match)

DeleteRow(t, id) ==
    LET Keep(r) == r.id # id IN SelectSeq(t, Keep)

PlaceRow(t, row) ==
    LET Below(r) == r.id < row.id
        Above(r) == r.id > row.id
    IN  SelectSeq(t, Below) \o <<row>> \o SelectSeq(t, Above)

\* INSERT without the primary-key check: a second row with the same id is stored.
InsertRowNoKey(t, row) ==
    LET Below(r) == r.id < row.id
        NotBelow(r) == r.id >= row.id
    IN  [ok |-> TRUE, table |-> SelectSeq(t, Below) \o <<row>> \o SelectSeq(t, NotBelow)]

\* INSERT INTO user: fails (IntegrityError) when the id is already present.
InsertRow(t, row) ==
    IF row.id \in RowIds(t)
    THEN [ok |-> FALSE, table |-> t]
    ELSE [ok |-> TRUE, table |-> PlaceRow(t, row)]

\* UPDATE user SET ... WHERE id = oldid: the new id must not be another row's.
UpdateRow(t, oldid, row) ==
    IF row.id # oldid /\ row.id \in RowIds(t)
    THEN [ok |-> FALSE, table |-> t]
    ELSE [ok |-> TRUE, table |-> PlaceRow(DeleteRow(t, oldid), row)]

\* query(User).all(): a scan without ORDER BY returns the rows in rowid order.
SelectAll(t) == [i \in 1..Len(t) |-> FromRow(t[i])]

\* query(User).count()
Count(t) == Len(t)

\* query(User).offset(skip).limit(limit).all() on SQLite: a negative OFFSET
\* counts as 0, a negative LIMIT means no upper bound.
SelectPage(t, skip, limit) ==
    LET off  == IF skip < 0 THEN 0 ELSE skip
        rest == IF off >= Len(t) THEN <<>> ELSE SubSeq(t, off + 1, Len(t))
        n    == IF limit < 0 \/ limit > Len(rest) THEN Len(rest) ELSE limit
    IN  SelectAll(SubSeq(rest, 1, n))

(***************************************************************************)
(* The SQLAlchemy session of one request.  s = [txn, work]: the state of   *)
(* its transaction ("none", "active", or "deactive" after a failed flush,  *)
(* until rollback() is called) and the table as the transaction sees it.   *)
(* SessionLocal has autoflush=False: a query reads s.work and sees nothing *)
(* that is only pending in the session.                                     *)
(***************************************************************************)
SessionLocal(t) == [txn |-> "none", work |-> t]

\* flush() of one added object.  A flush that fails rolls the transaction back
\* and leaves it deactive; every later flush raises until rollback().
FlushInsert(committed, s, row) ==
    IF s.txn = "deactive"
    THEN [ok |-> FALSE, s |-> s]
    ELSE LET ins == InsertRow(s.work, row)
         IN  IF ins.ok
             THEN [ok |-> TRUE, s |-> [txn |-> "active", work |-> ins.table]]
             ELSE [ok |-> FALSE, s |-> [txn |-> "deactive", work |-> committed]]

\* flush() of one object whose attributes were set.
FlushUpdate(committed, s, oldid, row) ==
    LET upd == UpdateRow(s.work, oldid, row)
    IN  IF upd.ok
        THEN [ok |-> TRUE, s |-> [txn |-> "active", work |-> upd.table]]
        ELSE [ok |-> FALSE, s |-> [txn |-> "deactive", work |-> committed]]

\* flush() of the objects marked by delete(): one DELETE per marked object.
FlushDelete(s, marked) ==
    LET Keep(r) == r.id \notin marked
    IN  [txn |-> "active", work |-> SelectSeq(s.work, Keep)]

Commit(committed, s) == s.work
Rollback(committed, s) == committed

\* User(isActive=..., username=..., id=..., dateOfBirth=..., email=...)
NewUser(user_data) ==
    [id |-> user_data.id, username |-> user_data.username, email |-> user_data.email,
     dateOfBirth |-> user_data.dateOfBirth, isActive |-> user_data.isActive]

(***************************************************************************)
(* The handlers.  Each takes the committed table and the request's input   *)
(* and gives [db, status, body, txn]: the committed table afterwards, the  *)
(* HTTP status and body (an exception mapped by its handler), and the      *)
(* state the session's transaction is left in.                             *)
(***************************************************************************)
Raised(t, code, name, txn) ==
    [db |-> t, status |-> code, body |-> [error |-> name], txn |-> txn]

get_all_user(t) ==
    [db |-> t, status |-> 200, body |-> [data |-> SelectAll(t)], txn |-> "active"]

get_count_user(t) ==
    [db |-> t, status |-> 200, body |-> [count |-> Count(t)], txn |-> "active"]

get_paginated_user(t, skip, limit) ==
    [db |-> t, status |-> 200,
     body |-> [total |-> Count(t), skip |-> skip, limit |-> limit,
               data |-> SelectPage(t, skip, limit)],
     txn |-> "active"]

get_user(t, user_id) ==
    LET db_user == SelectWhereId(t, user_id)
    IN  IF db_user = <<>>
        THEN Raised(t, 404, "User not found", "active")
        ELSE [db |-> t, status |-> 200, body |-> [user |-> FromRow(db_user[1])],
              txn |-> "active"]

\* create_user with two fields assigned crosswise.
create_user_swapped(t, user_data) ==
    LET s == SessionLocal(t)
        u == [NewUser(user_data) EXCEPT !.username = user_data.email,
                                        !.email = user_data.username]
        f == FlushInsert(t, s, ToRow(u))
    IN  IF f.ok
        THEN [db |-> Commit(t, f.s), status |-> 200,
              body |-> FromRow(SelectWhereId(Commit(t, f.s), u.id)[1]), txn |-> "none"]
        ELSE Raised(Rollback(t, f.s), 409, "Conflict", f.s.txn)

create_user(t, user_data) ==
    LET s == SessionLocal(t)
        db_user == NewUser(user_data)
        f == FlushInsert(t, s, ToRow(db_user))
    IN  IF f.ok
        THEN [db |-> Commit(t, f.s), status |-> 200,
              body |-> FromRow(SelectWhereId(Commit(t, f.s), db_user.id)[1]),
              txn |-> "none"]
        ELSE Raised(Rollback(t, f.s), 409, "Conflict", f.s.txn)

\* The for loop of bulk_create_user; acc = [s, created_items, errors].
RECURSIVE BulkCreateLoop(_, _, _, _)
BulkCreateLoop(committed, items, idx, acc) ==
    IF idx > Len(items)
    THEN acc
    ELSE Only({ BulkCreateLoop(committed, items, idx + 1,
                  IF f.ok
                  THEN [acc EXCEPT !.s = f.s,
                                   !.created_items = Append(@, items[idx].id)]
                  ELSE [acc EXCEPT !.s = f.s,
                                   !.errors = Append(@, [index |-> idx - 1])]) :
                f \in {FlushInsert(committed, acc.s, ToRow(NewUser(items[idx])))} })

\* A bulk create that keeps what could be inserted: every item is tried on its
\* own and the successful ones are committed although errors are reported.
RECURSIVE InsertEach(_, _, _)
InsertEach(t, items, idx) ==
    IF idx > Len(items)
    THEN t
    ELSE InsertEach(InsertRow(t, ToRow(NewUser(items[idx]))).table, items, idx + 1)

bulk_create_user_partial(t, items) ==
    LET acc == BulkCreateLoop(t, items, 1,
                 [s |-> SessionLocal(t), created_items |-> <<>>, errors |-> <<>>])
    IN  IF acc.errors # <<>>
        THEN [db |-> InsertEach(t, items, 1), status |-> 400,
              body |-> [message |-> "Bulk creation failed", errors |-> acc.errors],
              txn |-> "none"]
        ELSE [db |-> Commit(t, acc.s), status |-> 200,
              body |-> [created_count |-> Len(acc.created_items),
                        created_ids |-> acc.created_items],
              txn |-> "none"]

bulk_create_user(t, items) ==
    Only({ IF acc.errors # <<>>
           THEN [db |-> Rollback(t, acc.s), status |-> 400,
                 body |-> [message |-> "Bulk creation failed", errors |-> acc.errors],
                 txn |-> "none"]
           ELSE [db |-> Commit(t, acc.s), status |-> 200,
                 body |-> [created_count |-> Len(acc.created_items),
                           created_ids |-> acc.created_items],
                 txn |-> "none"] :
           acc \in {BulkCreateLoop(t, items, 1,
                      [s |-> SessionLocal(t), created_items |-> <<>>, errors |-> <<>>])} })

\* The for loop of bulk_delete_user; acc = [marked, deleted_count, not_found].
\* The query reads the table as it is: a row marked by delete() is still there.
RECURSIVE BulkDeleteLoop(_, _, _, _)
BulkDeleteLoop(s, ids, idx, acc) ==
    IF idx > Len(ids)
    THEN acc
    ELSE Only({ BulkDeleteLoop(s, ids, idx + 1,
                  IF db_user # <<>>
                  THEN [acc EXCEPT !.marked = @ \cup {db_user[1].id},
                                   !.deleted_count = @ + 1]
                  ELSE [acc EXCEPT !.not_found = Append(@, ids[idx])]) :
                db_user \in {SelectWhereId(s.work, ids[idx])} })

bulk_delete_user(t, ids) ==
    LET s == [SessionLocal(t) EXCEPT !.txn = "active"]
    IN  Only({ [db |-> Commit(t, FlushDelete(s, acc.marked)), status |-> 200,
                body |-> [deleted_count |-> acc.deleted_count,
                          not_found |-> acc.not_found],
                txn |-> "none"] :
               acc \in {BulkDeleteLoop(s, ids, 1,
                          [marked |-> {}, deleted_count |-> 0, not_found |-> <<>>])} })

update_user(t, user_id, user_data) ==
    LET s == [SessionLocal(t) EXCEPT !.txn = "active"]
        found == SelectWhereId(s.work, user_id)
    IN  IF found = <<>>
        THEN Raised(t, 404, "User not found", s.txn)
        ELSE LET db_user == [FromRow(found[1]) EXCEPT
                                !.isActive = user_data.isActive,
                                !.username = user_data.username,
                                !.id = user_data.id,
                                !.dateOfBirth = user_data.dateOfBirth,
                                !.email = user_data.email]
                 f == FlushUpdate(t, s, user_id, ToRow(db_user))
             IN  IF f.ok
                 THEN [db |-> Commit(t, f.s), status |-> 200,
                       body |-> FromRow(SelectWhereId(Commit(t, f.s), db_user.id)[1]),
                       txn |-> "none"]
                 ELSE Raised(Rollback(t, f.s), 409, "Conflict", f.s.txn)

\* delete_user that removes the addressed row and every row before it.
delete_user_wide(t, user_id) ==
    LET found == SelectWhereId(t, user_id)
        Keep(r) == r.id > user_id
    IN  IF found = <<>>
        THEN Raised(t, 404, "User not found", "active")
        ELSE [db |-> SelectSeq(t, Keep), status |-> 200,
              body |-> FromRow(found[1]), txn |-> "none"]

delete_user(t, user_id) ==
    LET s == [SessionLocal(t) EXCEPT !.txn = "active"]
        found == SelectWhereId(s.work, user_id)
    IN  IF found = <<>>
        THEN Raised(t, 404, "User not found", s.txn)
        ELSE [db |-> Commit(t, FlushDelete(s, {found[1].id})), status |-> 200,
              body |-> FromRow(found[1]), txn |-> "none"]

(***************************************************************************)
(* get_db: the session is created before the handler runs; an exception    *)
(* of the handler is thrown in at the yield (rollback, re-raise); close()  *)
(* runs on every path.                                                     *)
(***************************************************************************)
SessionOpen == [phase |-> "open", open |-> TRUE, txn |-> "none"]
SessionRollback(x) == [x EXCEPT !.phase = "rolledback", !.txn = "none"]
\* get_db without its finally clause: the session is left as it is.
SessionKeep(x) == [x EXCEPT !.phase = "closed"]
SessionClose(x) == [phase |-> "closed", open |-> FALSE, txn |-> "none"]

\* The requests a client can send: the operation and its validated input.
Calls ==
    {[op |-> "list", args |-> <<>>], [op |-> "count", args |-> <<>>]}
    \cup {[op |-> "paginated", args |-> [skip |-> skip, limit |-> limit]] :
            skip \in Window, limit \in Window}
    \cup {[op |-> "get", args |-> [user_id |-> id]] : id \in Ids}
    \cup {[op |-> "create", args |-> [user_data |-> u]] : u \in UserCreate}
    \cup {[op |-> "bulkCreate", args |-> [items |-> items]] :
            items \in SeqsUpTo(UserCreate, MaxBatch)}
    \cup {[op |-> "bulkDelete", args |-> [ids |-> ids]] : ids \in SeqsUpTo(Ids, MaxBatch)}
    \cup {[op |-> "update", args |-> [user_id |-> id, user_data |-> u]] :
            id \in Ids, u \in UserCreate}
    \cup {[op |-> "delete", args |-> [user_id |-> id]] : id \in Ids}

NoCall == [op |-> "none", args |-> <<>>, pre |-> <<>>, status |-> 0, body |-> <<>>]
NoSession == [phase |-> "idle", open |-> FALSE, txn |-> "none"]

Init ==
    /\ db = <<>>
    /\ sess = NoSession
    /\ call = NoCall

(***************************************************************************)
(* Actions: the steps of a request.                                        *)
(***************************************************************************)
\* A request arrives: its input is parsed and get_db creates its session.
Acquire ==
    /\ sess.phase = "idle"
    /\ \E c \in Calls :
         call' = [NoCall EXCEPT !.op = c.op, !.args = c.args]
    /\ sess' = SessionOpen
    /\ UNCHANGED db

\* The handler ran and ended with out: a response, or an exception that
\* travels through get_db to its exception handler.
Handled(out) ==
    /\ sess.phase = "open"
    /\ \E o \in {out} :
         /\ db' = o.db
         /\ call' = [call EXCEPT !.pre = db, !.status = o.status, !.body = o.body]
         /\ sess' = [phase |-> IF o.status = 200 THEN "returned" ELSE "raised",
                     open |-> TRUE, txn |-> o.txn]

GetAllUser ==
    /\ call.op = "list"
    /\ Handled(get_all_user(db))

GetCountUser ==
    /\ call.op = "count"
    /\ Handled(get_count_user(db))

GetPaginatedUser ==
    /\ call.op = "paginated"
    /\ Handled(get_paginated_user(db, call.args.skip, call.args.limit))

GetUser ==
    /\ call.op = "get"
    /\ Handled(get_user(db, call.args.user_id))

CreateUser ==
    /\ call.op = "create"
    /\ Handled(create_user(db, call.args.user_data))

BulkCreateUser ==
    /\ call.op = "bulkCreate"
    /\ Handled(bulk_create_user(db, call.args.items))

BulkDeleteUser ==
    /\ call.op = "bulkDelete"
    /\ Handled(bulk_delete_user(db, call.args.ids))

UpdateUser ==
    /\ call.op = "update"
    /\ Handled(update_user(db, call.args.user_id, call.args.user_data))

DeleteUser ==
    /\ call.op = "delete"
    /\ Handled(delete_user(db, call.args.user_id))

GetDbExcept ==
    /\ sess.phase = "raised"
    /\ sess' = SessionRollback(sess)
    /\ UNCHANGED <<db, call>>

GetDbFinally ==
    /\ sess.phase \in {"returned", "rolledback"}
    /\ sess' = SessionClose(sess)
    /\ UNCHANGED <<db, call>>

\* get_db has been left: the response (the handler's result, or what the
\* exception handler makes of the exception) goes out and the request is over.
Respond ==
    /\ sess.phase = "closed"
    /\ sess' = NoSession
    /\ call' = NoCall
    /\ UNCHANGED db

Handler ==
    \/ GetAllUser
    \/ GetCountUser
    \/ GetPaginatedUser
    \/ GetUser
    \/ CreateUser
    \/ BulkCreateUser
    \/ BulkDeleteUser
    \/ UpdateUser
    \/ DeleteUser

Next ==
    \/ Acquire
    \/ Handler
    \/ GetDbExcept
    \/ GetDbFinally
    \/ Respond

Spec == Init /\ [][Next]_vars

\* A request that was accepted is served to its end: the handler runs and the
\* exit code of get_db follows.  Nothing obliges a new request to arrive.
FairSpec ==
    /\ Spec
    /\ WF_vars(Handler)
    /\ WF_vars(GetDbExcept)
    /\ WF_vars(GetDbFinally)

(***************************************************************************)
(* Notions the properties are stated with.                                 *)
(***************************************************************************)
UniqueIds(t) == \A i, j \in 1..Len(t) : t[i].id = t[j].id => i = j

Range(f) == { f[i] : i \in DOMAIN f }

\* The row stored under id, as the one-element or empty sequence of objects.
Stored(t, id) == SelectAll(SelectWhereId(t, id))

\* a is b[k+1 .. k+Len(a)] for some k.
IsContiguousSub(a, b) ==
    \E k \in 0..Len(b) :
        /\ k + Len(a) <= Len(b)
        /\ \A i \in 1..Len(a) : a[i] = b[k + i]

\* The handler of the request served last has run, and the request was op.
Ran(op) == call.op = op /\ call.status # 0

MutatingOps == {"create", "bulkCreate", "bulkDelete", "update", "delete"}

(***************************************************************************)
(* C1: storage never holds two rows with the same id; a create whose id is *)
(* already stored answers 409 and leaves storage as it was (the stored     *)
(* record is not overwritten); a create whose id is free answers 200 and   *)
(* storage then holds exactly one row with that id, equal to the input.    *)
(***************************************************************************)
C1_UniqueIdentity ==
    /\ UniqueIds(db)
    /\ Ran("create") =>
         LET u == call.args.user_data
         IN  IF u.id \in RowIds(call.pre)
             THEN /\ call.status = 409
                  /\ db = call.pre
                  /\ Len(Stored(db, u.id)) = 1
             ELSE /\ call.status = 200
                  /\ Stored(db, u.id) = <<u>>

\* A second create with an id whose stored record differs from the input.
C1_Witness ==
    /\ Ran("create")
    /\ call.status = 409
    /\ Stored(db, call.args.user_data.id) # <<call.args.user_data>>

(***************************************************************************)
(* C2: bulkCreate is all-or-nothing.  When an item of the batch cannot be  *)
(* inserted (its id is stored already, or repeats an earlier item's id),   *)
(* the answer is 400, storage equals storage before the call, and the      *)
(* errors list the index of every such item.  Otherwise the answer is 200, *)
(* every item is stored as given and created_count is the batch length.    *)
(***************************************************************************)
C2_BulkCreateAllOrNothing ==
    Ran("bulkCreate") =>
        LET items == call.args.items
            Fails(i) == \/ items[i].id \in RowIds(call.pre)
                        \/ \E j \in 1..(i - 1) : items[j].id = items[i].id
        IN  IF \E i \in 1..Len(items) : Fails(i)
            THEN /\ call.status = 400
                 /\ db = call.pre
                 /\ \A i \in 1..Len(items) :
                      Fails(i) => [index |-> i - 1] \in Range(call.body.errors)
            ELSE /\ call.status = 200
                 /\ call.body.created_count = Len(items)
                 /\ Len(db) = Len(call.pre) + Len(items)
                 /\ \A i \in 1..Len(items) : Stored(db, items[i].id) = <<items[i]>>
                 /\ \A id \in RowIds(call.pre) : Stored(db, id) = Stored(call.pre, id)

\* A batch whose first item was flushed before a later item failed.
C2_Witness ==
    /\ Ran("bulkCreate")
    /\ call.status = 400
    /\ Len(call.args.items) >= 2
    /\ call.args.items[1].id \notin RowIds(call.pre)
    /\ call.pre # <<>>

(***************************************************************************)
(* C3: after bulkDelete(ids) no id of the list is stored, deleted_count is *)
(* the number of rows removed from storage, and not_found holds exactly    *)
(* the ids of the list that were not stored, also when an id occurs twice. *)
(***************************************************************************)
C3_BulkDeleteCounts ==
    Ran("bulkDelete") =>
        LET ids == call.args.ids
        IN  /\ call.status = 200
            /\ \A k \in 1..Len(ids) : ids[k] \notin RowIds(db)
            /\ call.body.deleted_count = Len(call.pre) - Len(db)
            /\ Range(call.body.not_found) = Range(ids) \ RowIds(call.pre)

(***************************************************************************)
(* C4: a successful update(id, record) leaves the set of stored ids as it  *)
(* was, and the record is stored under id with the fields of the input.    *)
(***************************************************************************)
C4_UpdateKeepsIdentity ==
    (Ran("update") /\ call.status = 200) =>
        /\ RowIds(db) = RowIds(call.pre)
        /\ Len(Stored(db, call.args.user_id)) = 1
        /\ [Stored(db, call.args.user_id)[1] EXCEPT !.id = call.args.user_data.id]
             = call.args.user_data

(***************************************************************************)
(* C5: update(id, r) of a stored id succeeds, getById(id) then returns r   *)
(* in every field, and the same update applied again succeeds and leaves   *)
(* storage as it is.                                                       *)
(***************************************************************************)
C5_UpdateIdempotent ==
    (Ran("update") /\ call.args.user_id \in RowIds(call.pre)) =>
        LET id == call.args.user_id
            r == call.args.user_data
            again == update_user(db, id, r)
        IN  /\ call.status = 200
            /\ get_user(db, id).status = 200
            /\ get_user(db, id).body = [user |-> r]
            /\ again.status = 200
            /\ again.db = db

(***************************************************************************)
(* C6: the records of listPage(offset, limit) are a contiguous part of     *)
(* listAll(), at most limit many, and total equals count().  (A limit      *)
(* below zero is read here as admitting no record, so that only a page     *)
(* longer than its limit refutes the statement.)                           *)
(***************************************************************************)
C6_PageIsWindow ==
    Ran("paginated") =>
        /\ IsContiguousSub(call.body.data, get_all_user(call.pre).body.data)
        /\ Len(call.body.data) <= (IF call.args.limit < 0 THEN 0 ELSE call.args.limit)
        /\ call.body.total = get_count_user(call.pre).body.count

(***************************************************************************)
(* C7: the offset reported by listPage is >= 0 and the limit reported is   *)
(* positive, whatever was requested, and the page keeps to that limit.     *)
(***************************************************************************)
C7_PageWindowClamped ==
    Ran("paginated") =>
        /\ call.body.skip >= 0
        /\ call.body.limit >= 1
        /\ Len(call.body.data) <= call.body.limit

(***************************************************************************)
(* C8: deleteById of an id that is not stored answers 404 and leaves       *)
(* storage unchanged; of a stored id it answers 200 with the record as it  *)
(* was, removes that row and leaves every other row as it was.             *)
(***************************************************************************)
C8_DeleteById ==
    Ran("delete") =>
        LET id == call.args.user_id
        IN  IF id \notin RowIds(call.pre)
            THEN call.status = 404 /\ db = call.pre
            ELSE /\ call.status = 200
                 /\ <<call.body>> = Stored(call.pre, id)
                 /\ RowIds(db) = RowIds(call.pre) \ {id}
                 /\ \A j \in RowIds(db) : Stored(db, j) = Stored(call.pre, j)

\* A delete that had another row, stored before the removed one, to leave alone.
C8_Witness ==
    /\ Ran("delete")
    /\ call.status = 200
    /\ \E j \in RowIds(db) : j < call.args.user_id

(***************************************************************************)
(* C9: create of an input whose id is free answers 200 with the input,     *)
(* getById(id) then returns a record equal to the input in every field,    *)
(* and count() has grown by one.                                           *)
(***************************************************************************)
C9_CreateRoundTrip ==
    (Ran("create") /\ call.args.user_data.id \notin RowIds(call.pre)) =>
        LET u == call.args.user_data
        IN  /\ call.status = 200
            /\ call.body = u
            /\ get_user(db, u.id).status = 200
            /\ get_user(db, u.id).body = [user |-> u]
            /\ get_count_user(db).body.count = get_count_user(call.pre).body.count + 1

\* A create into a table that already held a record.
C9_Witness ==
    /\ Ran("create")
    /\ call.status = 200
    /\ call.pre # <<>>
    /\ call.args.user_data.isActive = FALSE

(***************************************************************************)
(* C10: every operation runs in one scoped session.  A failed operation    *)
(* leaves storage exactly as before it, storage changes only with an       *)
(* operation that answers 200, a mutating operation that returned has      *)
(* committed (nothing is pending in its session), the except clause leaves *)
(* no transaction behind, no session is open once get_db has been left,    *)
(* and every session that was opened is eventually closed.                 *)
(***************************************************************************)
SessionScoped ==
    /\ sess.phase \in {"idle", "closed"} => (~sess.open /\ sess.txn = "none")
    /\ sess.phase = "rolledback" => sess.txn = "none"
    /\ (sess.phase = "returned" /\ call.op \in MutatingOps) => sess.txn = "none"
    /\ call.status \notin {0, 200} => db = call.pre

C10_SessionScope ==
    /\ []SessionScoped
    /\ [][db' # db => (call'.status = 200 /\ call'.op \in MutatingOps)]_vars
    /\ (sess.open ~> ~sess.open)

\* The session of a request that failed with a conflict, after get_db was left.
C10_Witness ==
    /\ sess.phase = "closed"
    /\ ~sess.open
    /\ call.op \in MutatingOps
    /\ call.status = 409

=============================================================================
